---- MODULE Spec2Model ----
(***************************************************************************)
(* code2md: collection of the source files of a project directory and      *)
(* their export into one Markdown document.                                *)
(*                                                                         *)
(* Text is modelled as a sequence of Unicode code points (46 is ".",       *)
(* 47 is "/", 97 is "a"), so that lower-casing, extensions, glob matching  *)
(* and anchors are computed character by character as the code does.  A    *)
(* path relative to the project root is a sequence of components, each a   *)
(* sequence of code points; the root itself is the empty path.             *)
(***************************************************************************)
EXTENDS Integers, Sequences, FiniteSets, TLC

VARIABLES
    cli,        \* the parsed command line (struct Cli)
    rootKind,   \* what cli.directory names: "dir", "file" or "missing"
    rootName,   \* last component of the canonical project directory
    fs,         \* entries below the project directory:
                \* [path, kind, to, readable, data]
    pc,         \* position of run()
    err,        \* the error run() returned ("" while none)
    extensions, \* run(): the HashSet of dot-prefixed extensions
    patterns,   \* run(): the exclude patterns handed to CollectorConfig::new
    excludes,   \* CollectorConfig.excludes: the compiled globs
    stack,      \* WalkDir: per open directory, the entries not yet yielded
    seen,       \* every path the directory walk has produced
    files,      \* collect_files: the Vec of collected paths
    doc,        \* the lines generate_markdown produced
    wrote,      \* whether this run wrote its output file
    clock,      \* the local time
    run,        \* number of the current run of the program
    fs0,        \* the entries below the project directory when this run began
    prev,       \* what the previous run saw and produced
    arg,        \* a function called on its own: its name and its argument
    result      \* what that call returned

vars == <<cli, rootKind, rootName, fs, pc, err, extensions, patterns, excludes,
          stack, seen, files, doc, wrote, clock, run, fs0, prev, arg, result>>

----------------------------------------------------------------------------
(* Bounds of the model.                                                    *)

\* at most this many regular files exist below the project root initially
MaxFiles == 2
\* the program is run at most this many times in succession
MaxRuns == 2

----------------------------------------------------------------------------
(* Characters and strings (Rust std: char, str).                           *)

\* char::is_alphanumeric, on the code points 0..255
is_alphanumeric(c) ==
    \/ c \in 48..57 \/ c \in 65..90 \/ c \in 97..122
    \/ c \in {170, 178, 179, 181, 185, 186, 188, 189, 190}
    \/ c \in 192..214 \/ c \in 216..246 \/ c \in 248..255

\* char::to_ascii_lowercase
to_ascii_lowercase(c) == IF c \in 65..90 THEN c + 32 ELSE c

\* char::to_lowercase, on the code points 0..255
char_to_lowercase(c) ==
    IF c \in 65..90 \/ c \in 192..214 \/ c \in 216..222 THEN c + 32 ELSE c

\* str::to_lowercase
to_lowercase(s) == [i \in 1..Len(s) |-> char_to_lowercase(s[i])]

\* Ord for str: lexicographic on code points; TRUE when a < b
RECURSIVE StrLess(_, _)
StrLess(a, b) ==
    IF b = <<>> THEN FALSE
    ELSE IF a = <<>> THEN TRUE
    ELSE IF a[1] # b[1] THEN a[1] < b[1]
    ELSE StrLess(Tail(a), Tail(b))

\* str::contains(char)
Contains(s, c) == \E i \in 1..Len(s) : s[i] = c

\* str::starts_with
StartsWith(s, p) == Len(s) >= Len(p) /\ SubSeq(s, 1, Len(p)) = p

\* the suffix of s from index i on
From(s, i) == SubSeq(s, i, Len(s))

\* str::replace('\\', "/")
ReplaceBackslash(s) == [i \in 1..Len(s) |-> IF s[i] = 92 THEN 47 ELSE s[i]]

----------------------------------------------------------------------------
(* Paths (Rust std::path).                                                 *)

\* Path::to_string_lossy of a relative path: components joined by "/"
RECURSIVE PathStr(_)
PathStr(p) ==
    IF p = <<>> THEN <<>>
    ELSE IF Len(p) = 1 THEN p[1]
    ELSE p[1] \o <<47>> \o PathStr(Tail(p))

\* index of the last "." of a name, 0 if there is none (str::rfind('.'))
RECURSIVE RFindDot(_)
RFindDot(n) ==
    IF n = <<>> THEN 0
    ELSE IF n[Len(n)] = 46 THEN Len(n)
    ELSE RFindDot(SubSeq(n, 1, Len(n) - 1))

\* an extension test that takes the name of a dot-file for its extension
HasExtension_of_dot_file(n) == n # <<46, 46>> /\ RFindDot(n) > 0

\* Path::extension of a file name: none without a ".", none when the only
\* "." is the first character, else what follows the last "."
HasExtension(n) == n # <<46, 46>> /\ RFindDot(n) > 1
Extension(n) == From(n, RFindDot(n) + 1)

\* Path::parent chain of a relative path: its proper, non-empty prefixes
Ancestors(p) == {SubSeq(p, 1, k) : k \in 1..(Len(p) - 1)}

----------------------------------------------------------------------------
(* Static tables (types.rs).                                               *)

\* PROJECT_TYPES: name and extensions of every project type, in table order
PROJECT_TYPES == <<
    [name |-> <<112, 121, 116, 104, 111, 110>>, \* python: .py .pyi .pyw
     extensions |-> <<<<46, 112, 121>>, <<46, 112, 121, 105>>, <<46, 112, 121, 119>>>>],
    [name |-> <<97, 114, 100, 117, 105, 110, 111>>, \* arduino: .ino .cpp .c .h .hpp
     extensions |-> <<<<46, 105, 110, 111>>, <<46, 99, 112, 112>>, <<46, 99>>, <<46, 104>>, <<46, 104, 112, 112>>>>],
    [name |-> <<118, 117, 101>>, \* vue: .vue .js .ts .jsx .tsx .json .css .scss .sass .less
     extensions |-> <<<<46, 118, 117, 101>>, <<46, 106, 115>>, <<46, 116, 115>>, <<46, 106, 115, 120>>, <<46, 116, 115, 120>>, <<46, 106, 115, 111, 110>>, <<46, 99, 115, 115>>, <<46, 115, 99, 115, 115>>, <<46, 115, 97, 115, 115>>, <<46, 108, 101, 115, 115>>>>],
    [name |-> <<114, 101, 97, 99, 116>>, \* react: .jsx .tsx .js .ts .json .css .scss .sass .less
     extensions |-> <<<<46, 106, 115, 120>>, <<46, 116, 115, 120>>, <<46, 106, 115>>, <<46, 116, 115>>, <<46, 106, 115, 111, 110>>, <<46, 99, 115, 115>>, <<46, 115, 99, 115, 115>>, <<46, 115, 97, 115, 115>>, <<46, 108, 101, 115, 115>>>>],
    [name |-> <<119, 101, 98>>, \* web: .html .htm .css .scss .sass .less .js .ts
     extensions |-> <<<<46, 104, 116, 109, 108>>, <<46, 104, 116, 109>>, <<46, 99, 115, 115>>, <<46, 115, 99, 115, 115>>, <<46, 115, 97, 115, 115>>, <<46, 108, 101, 115, 115>>, <<46, 106, 115>>, <<46, 116, 115>>>>],
    [name |-> <<112, 104, 112>>, \* php: .php .phtml .php3 .php4 .php5 .phps
     extensions |-> <<<<46, 112, 104, 112>>, <<46, 112, 104, 116, 109, 108>>, <<46, 112, 104, 112, 51>>, <<46, 112, 104, 112, 52>>, <<46, 112, 104, 112, 53>>, <<46, 112, 104, 112, 115>>>>],
    [name |-> <<110, 111, 100, 101>>, \* node: .js .ts .mjs .cjs .json
     extensions |-> <<<<46, 106, 115>>, <<46, 116, 115>>, <<46, 109, 106, 115>>, <<46, 99, 106, 115>>, <<46, 106, 115, 111, 110>>>>],
    [name |-> <<102, 108, 117, 116, 116, 101, 114>>, \* flutter: .dart .yaml .json
     extensions |-> <<<<46, 100, 97, 114, 116>>, <<46, 121, 97, 109, 108>>, <<46, 106, 115, 111, 110>>>>],
    [name |-> <<114, 117, 115, 116>>, \* rust: .rs .toml
     extensions |-> <<<<46, 114, 115>>, <<46, 116, 111, 109, 108>>>>],
    [name |-> <<103, 111>>, \* go: .go .mod .sum
     extensions |-> <<<<46, 103, 111>>, <<46, 109, 111, 100>>, <<46, 115, 117, 109>>>>],
    [name |-> <<106, 97, 118, 97>>, \* java: .java .xml .gradle .properties
     extensions |-> <<<<46, 106, 97, 118, 97>>, <<46, 120, 109, 108>>, <<46, 103, 114, 97, 100, 108, 101>>, <<46, 112, 114, 111, 112, 101, 114, 116, 105, 101, 115>>>>],
    [name |-> <<99, 115, 104, 97, 114, 112>>, \* csharp: .cs .csproj .sln .xaml
     extensions |-> <<<<46, 99, 115>>, <<46, 99, 115, 112, 114, 111, 106>>, <<46, 115, 108, 110>>, <<46, 120, 97, 109, 108>>>>],
    [name |-> <<99, 111, 110, 102, 105, 103>>, \* config: .json .yaml .yml .toml .ini .cfg .conf .env
     extensions |-> <<<<46, 106, 115, 111, 110>>, <<46, 121, 97, 109, 108>>, <<46, 121, 109, 108>>, <<46, 116, 111, 109, 108>>, <<46, 105, 110, 105>>, <<46, 99, 102, 103>>, <<46, 99, 111, 110, 102>>, <<46, 101, 110, 118>>>>],
    [name |-> <<100, 111, 99, 115>>, \* docs: .md .rst .txt .adoc
     extensions |-> <<<<46, 109, 100>>, <<46, 114, 115, 116>>, <<46, 116, 120, 116>>, <<46, 97, 100, 111, 99>>>>]
>>

\* DEFAULT_EXCLUDES, in table order
DEFAULT_EXCLUDES == <<
    <<110, 111, 100, 101, 95, 109, 111, 100, 117, 108, 101, 115>>,
    <<118, 101, 110, 100, 111, 114>>,
    <<112, 97, 99, 107, 97, 103, 101, 115>>,
    <<46, 112, 117, 98, 45, 99, 97, 99, 104, 101>>,
    <<95, 95, 112, 121, 99, 97, 99, 104, 101, 95, 95>>,
    <<46, 112, 121, 116, 101, 115, 116, 95, 99, 97, 99, 104, 101>>,
    <<46, 109, 121, 112, 121, 95, 99, 97, 99, 104, 101>>,
    <<46, 114, 117, 102, 102, 95, 99, 97, 99, 104, 101>>,
    <<118, 101, 110, 118>>,
    <<46, 118, 101, 110, 118>>,
    <<101, 110, 118>>,
    <<46, 101, 110, 118>>,
    <<42, 46, 101, 103, 103, 45, 105, 110, 102, 111>>,
    <<100, 105, 115, 116>>,
    <<98, 117, 105, 108, 100>>,
    <<111, 117, 116>>,
    <<116, 97, 114, 103, 101, 116>>,
    <<98, 105, 110>>,
    <<111, 98, 106>>,
    <<46, 105, 100, 101, 97>>,
    <<46, 118, 115, 99, 111, 100, 101>>,
    <<46, 118, 115>>,
    <<42, 46, 115, 119, 112>>,
    <<42, 46, 115, 119, 111>>,
    <<46, 103, 105, 116>>,
    <<46, 115, 118, 110>>,
    <<46, 104, 103>>,
    <<46, 68, 83, 95, 83, 116, 111, 114, 101>>,
    <<84, 104, 117, 109, 98, 115, 46, 100, 98>>,
    <<42, 46, 108, 111, 103>>,
    <<108, 111, 103, 115>>,
    <<116, 109, 112>>,
    <<116, 101, 109, 112>>,
    <<46, 116, 109, 112>>,
    <<99, 111, 118, 101, 114, 97, 103, 101>>,
    <<46, 99, 111, 118, 101, 114, 97, 103, 101>>,
    <<104, 116, 109, 108, 99, 111, 118>>,
    <<46, 116, 111, 120>>,
    <<46, 110, 111, 120>>
>>
\* (node_modules vendor packages .pub-cache __pycache__ .pytest_cache .mypy_cache .ruff_cache venv .venv env .env *.egg-info dist build out target bin obj .idea .vscode .vs *.swp *.swo .git .svn .hg .DS_Store Thumbs.db *.log logs tmp temp .tmp coverage .coverage htmlcov .tox .nox)

\* get_syntax_map: extension -> syntax tag
get_syntax_map == {
    <<<<46, 112, 121>>, <<112, 121, 116, 104, 111, 110>>>>,
    <<<<46, 112, 121, 105>>, <<112, 121, 116, 104, 111, 110>>>>,
    <<<<46, 112, 121, 119>>, <<112, 121, 116, 104, 111, 110>>>>,
    <<<<46, 106, 115>>, <<106, 97, 118, 97, 115, 99, 114, 105, 112, 116>>>>,
    <<<<46, 109, 106, 115>>, <<106, 97, 118, 97, 115, 99, 114, 105, 112, 116>>>>,
    <<<<46, 99, 106, 115>>, <<106, 97, 118, 97, 115, 99, 114, 105, 112, 116>>>>,
    <<<<46, 116, 115>>, <<116, 121, 112, 101, 115, 99, 114, 105, 112, 116>>>>,
    <<<<46, 106, 115, 120>>, <<106, 115, 120>>>>,
    <<<<46, 116, 115, 120>>, <<116, 115, 120>>>>,
    <<<<46, 118, 117, 101>>, <<118, 117, 101>>>>,
    <<<<46, 104, 116, 109, 108>>, <<104, 116, 109, 108>>>>,
    <<<<46, 104, 116, 109>>, <<104, 116, 109, 108>>>>,
    <<<<46, 99, 115, 115>>, <<99, 115, 115>>>>,
    <<<<46, 115, 99, 115, 115>>, <<115, 99, 115, 115>>>>,
    <<<<46, 115, 97, 115, 115>>, <<115, 97, 115, 115>>>>,
    <<<<46, 108, 101, 115, 115>>, <<108, 101, 115, 115>>>>,
    <<<<46, 106, 115, 111, 110>>, <<106, 115, 111, 110>>>>,
    <<<<46, 121, 97, 109, 108>>, <<121, 97, 109, 108>>>>,
    <<<<46, 121, 109, 108>>, <<121, 97, 109, 108>>>>,
    <<<<46, 116, 111, 109, 108>>, <<116, 111, 109, 108>>>>,
    <<<<46, 120, 109, 108>>, <<120, 109, 108>>>>,
    <<<<46, 109, 100>>, <<109, 97, 114, 107, 100, 111, 119, 110>>>>,
    <<<<46, 114, 115, 116>>, <<114, 115, 116>>>>,
    <<<<46, 112, 104, 112>>, <<112, 104, 112>>>>,
    <<<<46, 112, 104, 116, 109, 108>>, <<112, 104, 112>>>>,
    <<<<46, 99>>, <<99>>>>,
    <<<<46, 104>>, <<99>>>>,
    <<<<46, 99, 112, 112>>, <<99, 112, 112>>>>,
    <<<<46, 104, 112, 112>>, <<99, 112, 112>>>>,
    <<<<46, 105, 110, 111>>, <<99, 112, 112>>>>,
    <<<<46, 114, 115>>, <<114, 117, 115, 116>>>>,
    <<<<46, 103, 111>>, <<103, 111>>>>,
    <<<<46, 100, 97, 114, 116>>, <<100, 97, 114, 116>>>>,
    <<<<46, 106, 97, 118, 97>>, <<106, 97, 118, 97>>>>,
    <<<<46, 107, 116>>, <<107, 111, 116, 108, 105, 110>>>>,
    <<<<46, 99, 115>>, <<99, 115, 104, 97, 114, 112>>>>,
    <<<<46, 114, 98>>, <<114, 117, 98, 121>>>>,
    <<<<46, 115, 104>>, <<98, 97, 115, 104>>>>,
    <<<<46, 98, 97, 115, 104>>, <<98, 97, 115, 104>>>>,
    <<<<46, 122, 115, 104>>, <<122, 115, 104>>>>,
    <<<<46, 102, 105, 115, 104>>, <<102, 105, 115, 104>>>>,
    <<<<46, 112, 115, 49>>, <<112, 111, 119, 101, 114, 115, 104, 101, 108, 108>>>>,
    <<<<46, 115, 113, 108>>, <<115, 113, 108>>>>,
    <<<<46, 103, 114, 97, 112, 104, 113, 108>>, <<103, 114, 97, 112, 104, 113, 108>>>>,
    <<<<46, 100, 111, 99, 107, 101, 114, 102, 105, 108, 101>>, <<100, 111, 99, 107, 101, 114, 102, 105, 108, 101>>>>,
    <<<<46, 105, 110, 105>>, <<105, 110, 105>>>>,
    <<<<46, 99, 102, 103>>, <<105, 110, 105>>>>,
    <<<<46, 99, 111, 110, 102>>, <<105, 110, 105>>>>,
    <<<<46, 101, 110, 118>>, <<100, 111, 116, 101, 110, 118>>>>,
    <<<<46, 103, 105, 116, 105, 103, 110, 111, 114, 101>>, <<103, 105, 116, 105, 103, 110, 111, 114, 101>>>>,
    <<<<46, 103, 114, 97, 100, 108, 101>>, <<103, 114, 97, 100, 108, 101>>>>,
    <<<<46, 112, 114, 111, 112, 101, 114, 116, 105, 101, 115>>, <<112, 114, 111, 112, 101, 114, 116, 105, 101, 115>>>>,
    <<<<46, 115, 117, 109>>, <<116, 101, 120, 116>>>>,
    <<<<46, 109, 111, 100>>, <<103, 111>>>>,
    <<<<46, 99, 115, 112, 114, 111, 106>>, <<120, 109, 108>>>>,
    <<<<46, 115, 108, 110>>, <<116, 101, 120, 116>>>>,
    <<<<46, 120, 97, 109, 108>>, <<120, 109, 108>>>>,
    <<<<46, 97, 100, 111, 99>>, <<97, 115, 99, 105, 105, 100, 111, 99>>>>,
    <<<<46, 116, 120, 116>>, <<116, 101, 120, 116>>>>
}
\* (.py=python .pyi=python .pyw=python .js=javascript .mjs=javascript .cjs=javascript .ts=typescript .jsx=jsx .tsx=tsx .vue=vue .html=html .htm=html .css=css .scss=scss .sass=sass .less=less .json=json .yaml=yaml .yml=yaml .toml=toml .xml=xml .md=markdown .rst=rst .php=php .phtml=php .c=c .h=c .cpp=cpp .hpp=cpp .ino=cpp .rs=rust .go=go .dart=dart .java=java .kt=kotlin .cs=csharp .rb=ruby .sh=bash .bash=bash .zsh=zsh .fish=fish .ps1=powershell .sql=sql .graphql=graphql .dockerfile=dockerfile .ini=ini .cfg=ini .conf=ini .env=dotenv .gitignore=gitignore .gradle=gradle .properties=properties .sum=text .mod=go .csproj=xml .sln=text .xaml=xml .adoc=asciidoc .txt=text)

\* find_project_type: the first type whose name is the lower-cased argument
HasProjectType(name) ==
    \E i \in 1..Len(PROJECT_TYPES) : PROJECT_TYPES[i].name = to_lowercase(name)
find_project_type(name) ==
    PROJECT_TYPES[CHOOSE i \in 1..Len(PROJECT_TYPES) :
        /\ PROJECT_TYPES[i].name = to_lowercase(name)
        /\ \A j \in 1..(i - 1) : PROJECT_TYPES[j].name # to_lowercase(name)]

\* the elements of a sequence
Range(s) == {s[i] : i \in 1..Len(s)}

\* collect_extensions: fails on the first unknown type name, else the union
\* of the extensions of the named types
collect_extensions_ok(type_names) ==
    \A i \in 1..Len(type_names) : HasProjectType(type_names[i])
collect_extensions(type_names) ==
    UNION {Range(find_project_type(type_names[i]).extensions) :
           i \in 1..Len(type_names)}

----------------------------------------------------------------------------
(* Globs (crate globset, as CollectorConfig uses it: default options, so   *)
(* "*" and "?" also match "/", and a leading "**/" matches any number of   *)
(* leading directories, none included).  The patterns of this model use    *)
(* literals, "*", "?", a leading "**/" and "[".                            *)

\* Glob::new: fails on a character class that is never closed
GlobValid(g) ==
    \A i \in 1..Len(g) : g[i] = 91 => \E j \in (i + 1)..Len(g) : g[j] = 93

\* match of the pattern characters p against the whole of s
RECURSIVE GlobTail(_, _)
GlobTail(p, s) ==
    IF p = <<>> THEN s = <<>>
    ELSE IF p[1] = 42 THEN GlobTail(Tail(p), s) \/ (s # <<>> /\ GlobTail(p, Tail(s)))
    ELSE IF p[1] = 63 THEN s # <<>> /\ GlobTail(Tail(p), Tail(s))
    ELSE s # <<>> /\ s[1] = p[1] /\ GlobTail(Tail(p), Tail(s))

\* GlobMatcher::is_match
GlobMatch(g, s) ==
    IF StartsWith(g, <<42, 42, 47>>)
    THEN \/ GlobTail(From(g, 4), s)
         \/ \E k \in 1..Len(s) : s[k] = 47 /\ GlobTail(From(g, 4), From(s, k + 1))
    ELSE GlobTail(g, s)

\* GlobSet::is_match
is_match(globs, s) == \E i \in 1..Len(globs) : GlobMatch(globs[i], s)

----------------------------------------------------------------------------
(* CollectorConfig (collector.rs).                                         *)

\* CollectorConfig::new, one pattern: a pattern with a separator is kept
\* (backslashes turned into "/"), a bare name gets "**/" in front; if that
\* does not compile, "**/" + pattern is tried
Normalized(pattern) ==
    IF Contains(pattern, 47) \/ Contains(pattern, 92)
    THEN ReplaceBackslash(pattern)
    ELSE <<42, 42, 47>> \o pattern
Fallback(pattern) == <<42, 42, 47>> \o pattern
GlobFor(pattern) ==
    IF GlobValid(Normalized(pattern)) THEN Normalized(pattern) ELSE Fallback(pattern)

\* a constructor that drops the globs that do not compile
CollectorConfig_new_ok_lenient(exclude_patterns) == TRUE

\* CollectorConfig::new: fails if some pattern compiles in neither form
CollectorConfig_new_ok(exclude_patterns) ==
    \A i \in 1..Len(exclude_patterns) : GlobValid(GlobFor(exclude_patterns[i]))
CollectorConfig_new(exclude_patterns) ==
    [i \in 1..Len(exclude_patterns) |-> GlobFor(exclude_patterns[i])]

\* CollectorConfig::should_include, of the file at relative path path
should_include(globs, exts, path) ==
    /\ ~is_match(globs, PathStr(path))
    /\ \A i \in 1..Len(path) : ~is_match(globs, path[i])
    /\ HasExtension(path[Len(path)])
    /\ (<<46>> \o to_lowercase(Extension(path[Len(path)]))) \in exts

\* Path::file_name of an entry of the walk; the root's is the name of the
\* project directory
file_name(path, root_name) == IF path = <<>> THEN root_name ELSE path[Len(path)]

\* should_enter_dir without the test of the relative path
should_enter_dir_name_only(globs, path, root_name) ==
    ~is_match(globs, file_name(path, root_name))

\* should_enter_dir without the test of the directory name
should_enter_dir_path_only(globs, path, root_name) ==
    ~is_match(globs, PathStr(path))

\* CollectorConfig::should_enter_dir, of the directory at relative path path
should_enter_dir(globs, path, root_name) ==
    /\ ~is_match(globs, PathStr(path))
    /\ ~is_match(globs, file_name(path, root_name))

----------------------------------------------------------------------------
(* The command line and the project directory the program is run on.       *)

None == [some |-> FALSE, v |-> <<>>]
Some(x) == [some |-> TRUE, v |-> x]

\* values of struct Cli (cli.rs); --name and --verbose are left at their
\* defaults, --output is absent or names a file outside the project
CliValues ==
    [command : {"none", "list-types"},
     types : {None, Some(<< <<80, 121, 116, 104, 111, 110>> >>),      \* Python
                    Some(<< <<98, 111, 103, 117, 115>> >>)},           \* bogus
     extensions : {None, Some(<< <<77, 68>>, <<46, 101, 110, 118>> >>)}, \* MD .env
     excludes : {None, Some(<< <<115, 114, 99, 47, 103, 101, 110>> >>), \* src/gen
                       Some(<< <<91>> >>)},                            \* [
     output : {None, Some("elsewhere")},
     no_tree : BOOLEAN,
     no_default_excludes : BOOLEAN]

\* names the project directory can have: "p", "build"
RootNames == {<<112>>, <<98, 117, 105, 108, 100>>}

\* the regular files that can exist below the project directory:
\* a.py A.py N.md Makefile .env build/b.py src/gen/Ä.py
FileUniverse ==
    {<< <<97, 46, 112, 121>> >>,
     << <<65, 46, 112, 121>> >>,
     << <<78, 46, 109, 100>> >>,
     << <<77, 97, 107, 101, 102, 105, 108, 101>> >>,
     << <<46, 101, 110, 118>> >>,
     << <<98, 117, 105, 108, 100>>, <<98, 46, 112, 121>> >>,
     << <<115, 114, 99>>, <<103, 101, 110>>, <<196, 46, 112, 121>> >>}

\* a regular file at path holding the text data
File(path, data) ==
    [path |-> path, kind |-> "file", to |-> "file", readable |-> TRUE, data |-> data]

\* a directory at path
Dir(path) ==
    [path |-> path, kind |-> "dir", to |-> "dir", readable |-> TRUE, data |-> <<>>]

\* a symbolic link at path; to is the kind of what it resolves to ("file",
\* "dir", or "missing" for a dangling link) and data the text read through it
Symlink(path, to, data) ==
    [path |-> path, kind |-> "symlink", to |-> to, readable |-> TRUE, data |-> data]

\* DirEntry::file_type().is_dir() under follow_links(false): the type of
\* the entry itself, a symbolic link is not a directory
file_type_is_dir(e) == e.kind = "dir"

\* Path::is_file(): std::fs::metadata follows symbolic links
path_is_file(e) == e.to = "file"

\* what a file of the project holds initially: its name and a newline
InitialData(path) == path[Len(path)] \o <<10>>

\* the directory tree that holds exactly the regular files S
TreeOf(S) ==
    {File(p, InitialData(p)) : p \in S}
    \cup {Dir(d) : d \in UNION {Ancestors(p) : p \in S}}

\* the entries of directory dir (std::fs::read_dir), in no particular order
Children(tree, dir) ==
    {e \in tree : Len(e.path) = Len(dir) + 1 /\ SubSeq(e.path, 1, Len(dir)) = dir}

\* the regular files of a tree
RegularFiles(tree) == {e.path : e \in {x \in tree : x.kind = "file"}}

\* the entry of the project directory itself (depth 0 of the walk)
RootEntry == Dir(<<>>)

\* no function is called on its own
NoCall == [fn |-> "", files |-> <<>>, include_tree |-> FALSE, filename |-> <<>>, bytes |-> 0]

NoPrev == [ran |-> FALSE, fs |-> {}, files |-> <<>>, doc |-> <<>>, pc |-> "", wrote |-> FALSE]

Init ==
    /\ cli \in CliValues
    /\ rootKind \in {"dir", "file", "missing"}
    /\ rootName \in RootNames
    /\ fs \in IF rootKind = "dir"
              THEN {TreeOf(S) : S \in {T \in SUBSET FileUniverse : Cardinality(T) <= MaxFiles}}
              ELSE {{}}
    /\ fs0 = fs
    /\ pc = "start"
    /\ err = ""
    /\ extensions = {}
    /\ patterns = <<>>
    /\ excludes = <<>>
    /\ stack = <<>>
    /\ seen = {}
    /\ files = <<>>
    /\ doc = <<>>
    /\ wrote = FALSE
    /\ clock = 0
    /\ run = 1
    /\ prev = NoPrev
    /\ arg = NoCall
    /\ result = <<>>

----------------------------------------------------------------------------
(* run() (main.rs), step by step.                                          *)

Fail(e) == pc' = "err" /\ err' = e

\* run(), `list-types`: print_types and return Ok
ListTypes ==
    /\ pc = "start"
    /\ cli.command = "list-types"
    /\ pc' = "ok"
    /\ UNCHANGED <<cli, rootKind, rootName, fs, err, extensions, patterns, excludes,
                   stack, seen, files, doc, wrote, clock, run, fs0, prev,
                   arg, result>>

\* Cli::validate, as run() calls it
Validate ==
    /\ pc = "start"
    /\ cli.command = "none"
    /\ IF ~cli.types.some /\ ~cli.extensions.some THEN Fail("no type or ext")
       ELSE IF rootKind = "missing" THEN Fail("directory does not exist")
       ELSE IF rootKind # "dir" THEN Fail("not a directory")
       ELSE pc' = "validated" /\ err' = err
    /\ UNCHANGED <<cli, rootKind, rootName, fs, extensions, patterns, excludes,
                   stack, seen, files, doc, wrote, clock, run, fs0, prev,
                   arg, result>>

\* run(): an extension of --ext, lower-cased and dot-prefixed
NormalizeExt(ext) ==
    IF StartsWith(ext, <<46>>) THEN to_lowercase(ext) ELSE <<46>> \o to_lowercase(ext)

\* run(): the extension set and the exclude patterns
Configure ==
    /\ pc = "validated"
    /\ IF cli.types.some /\ ~collect_extensions_ok(cli.types.v)
       THEN Fail("unknown project type") /\ UNCHANGED <<extensions, patterns>>
       ELSE /\ extensions' =
                (IF cli.types.some THEN collect_extensions(cli.types.v) ELSE {})
                \cup {NormalizeExt(cli.extensions.v[i]) : i \in 1..Len(cli.extensions.v)}
            /\ patterns' =
                (IF cli.no_default_excludes THEN <<>> ELSE DEFAULT_EXCLUDES)
                \o cli.excludes.v
            /\ pc' = "resolved"
            /\ err' = err
    /\ UNCHANGED <<cli, rootKind, rootName, fs, excludes,
                   stack, seen, files, doc, wrote, clock, run, fs0, prev,
                   arg, result>>

\* run(): CollectorConfig::new
NewConfig ==
    /\ pc = "resolved"
    /\ IF CollectorConfig_new_ok(patterns)
       THEN excludes' = CollectorConfig_new(patterns) /\ pc' = "configured" /\ err' = err
       ELSE Fail("invalid pattern") /\ excludes' = excludes
    /\ UNCHANGED <<cli, rootKind, rootName, fs, extensions, patterns,
                   stack, seen, files, doc, wrote, clock, run, fs0, prev,
                   arg, result>>

----------------------------------------------------------------------------
(* collect_files (collector.rs): the walk of the project directory.        *)

\* the open directories of the walk without the exhausted ones on top
RECURSIVE PopExhausted(_)
PopExhausted(st) ==
    IF st # <<>> /\ st[Len(st)] = {} THEN PopExhausted(SubSeq(st, 1, Len(st) - 1))
    ELSE st

\* the filter_entry predicate of collect_files
EntryFilter(e) ==
    IF file_type_is_dir(e) THEN should_enter_dir(excludes, e.path, rootName) ELSE TRUE

\* collect_files: the walker is created; its first entry is the root
WalkStart ==
    /\ pc = "configured"
    /\ stack' = <<{RootEntry}>>
    /\ seen' = {}
    /\ files' = <<>>
    /\ pc' = "walking"
    /\ UNCHANGED <<cli, rootKind, rootName, fs, err, extensions, patterns, excludes,
                   doc, wrote, clock, run, fs0, prev,
                   arg, result>>

\* collect_files: the walk produces its next entry e, any of the entries
\* left in the directory it is reading; a directory that passes the filter
\* is opened (a symbolic link is not a directory: follow_links(false)), a
\* path that is_file() and passes should_include is collected
WalkStep ==
    /\ pc = "walking"
    /\ stack # <<>>
    /\ \E e \in stack[Len(stack)] :
         LET rest == [stack EXCEPT ![Len(stack)] = @ \ {e}] IN
         /\ seen' = seen \cup {e.path}
         /\ stack' = PopExhausted(
                IF file_type_is_dir(e) /\ EntryFilter(e)
                THEN Append(rest, Children(fs, e.path))
                ELSE rest)
         /\ files' = IF /\ EntryFilter(e)
                        /\ path_is_file(e)
                        /\ should_include(excludes, extensions, e.path)
                     THEN Append(files, e.path)
                     ELSE files
    /\ UNCHANGED <<cli, rootKind, rootName, fs, pc, err, extensions, patterns, excludes,
                   doc, wrote, clock, run, fs0, prev,
                   arg, result>>

\* the key files are sorted by: the lower-cased relative path
SortKey(path) == to_lowercase(PathStr(path))

\* TRUE when the comparator of collect_files puts a strictly before b
FileLess(a, b) == StrLess(SortKey(a), SortKey(b))

\* slice::sort_by is stable: x goes behind every element not greater than it
RECURSIVE InsertFile(_, _)
InsertFile(sorted, x) ==
    IF sorted = <<>> THEN <<x>>
    ELSE IF FileLess(x, sorted[Len(sorted)])
         THEN Append(InsertFile(SubSeq(sorted, 1, Len(sorted) - 1), x), sorted[Len(sorted)])
         ELSE Append(sorted, x)

RECURSIVE SortFiles(_)
SortFiles(s) ==
    IF s = <<>> THEN <<>>
    ELSE InsertFile(SortFiles(SubSeq(s, 1, Len(s) - 1)), s[Len(s)])

\* collect_files: the walk is over, the files are sorted and returned
WalkEnd ==
    /\ pc = "walking"
    /\ stack = <<>>
    /\ files' = SortFiles(files)
    /\ pc' = "collected"
    /\ UNCHANGED <<cli, rootKind, rootName, fs, err, extensions, patterns, excludes,
                   stack, seen, doc, wrote, clock, run, fs0, prev,
                   arg, result>>

----------------------------------------------------------------------------
(* Syntax tags (types.rs) and file contents (collector.rs).                *)

\* a get_syntax_for_file that looks the suffix up in the table first
get_syntax_for_file_table_first(filename) ==
    LET lower == to_lowercase(filename)
        dot_pos == RFindDot(lower)
        ext == From(lower, dot_pos)
    IN  IF dot_pos > 0 /\ \E m \in get_syntax_map : m[1] = ext
        THEN (CHOOSE m \in get_syntax_map : m[1] = ext)[2]
        ELSE IF lower = <<100, 111, 99, 107, 101, 114, 102, 105, 108, 101>> THEN <<100, 111, 99, 107, 101, 114, 102, 105, 108, 101>>
        ELSE IF lower = <<109, 97, 107, 101, 102, 105, 108, 101>> THEN <<109, 97, 107, 101, 102, 105, 108, 101>>
        ELSE IF StartsWith(lower, <<46, 101, 110, 118>>) THEN <<100, 111, 116, 101, 110, 118>>
        ELSE IF lower = <<46, 103, 105, 116, 105, 103, 110, 111, 114, 101>> THEN <<103, 105, 116, 105, 103, 110, 111, 114, 101>>
        ELSE <<>>

\* get_syntax_for_file
get_syntax_for_file(filename) ==
    LET lower == to_lowercase(filename)
        dot_pos == RFindDot(lower)
        ext == From(lower, dot_pos)
    IN  IF lower = <<100, 111, 99, 107, 101, 114, 102, 105, 108, 101>> THEN <<100, 111, 99, 107, 101, 114, 102, 105, 108, 101>>
        ELSE IF lower = <<109, 97, 107, 101, 102, 105, 108, 101>> THEN <<109, 97, 107, 101, 102, 105, 108, 101>>
        ELSE IF StartsWith(lower, <<46, 101, 110, 118>>) THEN <<100, 111, 116, 101, 110, 118>>
        ELSE IF lower = <<46, 103, 105, 116, 105, 103, 110, 111, 114, 101>> THEN <<103, 105, 116, 105, 103, 110, 111, 114, 101>>
        ELSE IF dot_pos > 0 /\ \E m \in get_syntax_map : m[1] = ext
             THEN (CHOOSE m \in get_syntax_map : m[1] = ext)[2]
             ELSE <<>>

\* a read_file_content that yields the empty text for a file it cannot read
read_file_content_empty_on_error(tree, path) ==
    IF \E e \in tree : e.path = path /\ e.to = "file" /\ e.readable
    THEN (CHOOSE e \in tree : e.path = path /\ e.to = "file" /\ e.readable).data
    ELSE <<>>

\* read_file_content: the text of the file (read through a symbolic link),
\* or a placeholder naming the error when it cannot be read
\* ("[Fehler: Datei konnte nicht gelesen werden - <error>]")
read_file_content(tree, path) ==
    LET found == {e \in tree : e.path = path /\ e.to = "file"}
        error == IF found = {}
                 THEN <<78, 111, 32, 115, 117, 99, 104, 32, 102, 105, 108, 101, 32, 111, 114, 32, 100, 105, 114, 101, 99, 116, 111, 114, 121, 32, 40, 111, 115, 32, 101, 114, 114, 111, 114, 32, 50, 41>>
                 ELSE <<80, 101, 114, 109, 105, 115, 115, 105, 111, 110, 32, 100, 101, 110, 105, 101, 100, 32, 40, 111, 115, 32, 101, 114, 114, 111, 114, 32, 49, 51, 41>>
    IN  IF \E e \in found : e.readable
        THEN (CHOOSE e \in found : e.readable).data
        ELSE <<91, 70, 101, 104, 108, 101, 114, 58, 32, 68, 97, 116, 101, 105, 32, 107, 111, 110, 110, 116, 101, 32, 110, 105, 99, 104, 116, 32, 103, 101, 108, 101, 115, 101, 110, 32, 119, 101, 114, 100, 101, 110, 32, 45, 32>>
             \o error \o <<93>>

\* char::is_whitespace, on the code points 0..255
is_whitespace(c) == c \in 9..13 \/ c \in {32, 133, 160}

\* str::trim_end
RECURSIVE trim_end(_)
trim_end(s) ==
    IF s # <<>> /\ is_whitespace(s[Len(s)]) THEN trim_end(SubSeq(s, 1, Len(s) - 1))
    ELSE s

\* the decimal digits of a natural number (format!("{}", n))
RECURSIVE Decimal(_)
Decimal(n) == IF n < 10 THEN <<48 + n>> ELSE Append(Decimal(n \div 10), 48 + (n % 10))

----------------------------------------------------------------------------
(* The directory tree (tree.rs).                                           *)

\* TreeNode::new
TreeNode_new(name, is_dir) == [name |-> name, is_dir |-> is_dir, children |-> <<>>]

\* an add_path that never looks for an existing child
RECURSIVE add_path_always_new(_, _, _)
add_path_always_new(node, components, is_file) ==
    IF components = <<>> THEN node
    ELSE LET name == components[1]
             remaining == Tail(components)
             is_dir == remaining # <<>> \/ ~is_file
         IN  [node EXCEPT !.children =
                 Append(@, add_path_always_new(TreeNode_new(name, is_dir), remaining, is_file))]

\* TreeNode::add_path: the node with the path of the given components added
RECURSIVE add_path(_, _, _)
add_path(node, components, is_file) ==
    IF components = <<>> THEN node
    ELSE LET name == components[1]
             remaining == Tail(components)
             is_dir == remaining # <<>> \/ ~is_file
             found == {i \in 1..Len(node.children) : node.children[i].name = name}
         IN  IF found # {}
             THEN LET i == CHOOSE k \in found : \A j \in found : k <= j
                  IN  [node EXCEPT !.children[i] = add_path(@, remaining, is_file)]
             ELSE [node EXCEPT !.children =
                      Append(@, add_path(TreeNode_new(name, is_dir), remaining, is_file))]

\* a comparator that compares the names as they are, upper case first
NodeLess_case_sensitive(a, b) ==
    IF a.is_dir /\ ~b.is_dir THEN TRUE
    ELSE IF ~a.is_dir /\ b.is_dir THEN FALSE
    ELSE StrLess(a.name, b.name)

\* a comparator that does not put directories first
NodeLess_by_name_only(a, b) == StrLess(to_lowercase(a.name), to_lowercase(b.name))

\* the comparator of TreeNode::sort: TRUE when a goes strictly before b
NodeLess(a, b) ==
    IF a.is_dir /\ ~b.is_dir THEN TRUE
    ELSE IF ~a.is_dir /\ b.is_dir THEN FALSE
    ELSE StrLess(to_lowercase(a.name), to_lowercase(b.name))

\* slice::sort_by with that comparator (stable)
RECURSIVE InsertNode(_, _)
InsertNode(sorted, x) ==
    IF sorted = <<>> THEN <<x>>
    ELSE IF NodeLess(x, sorted[Len(sorted)])
         THEN Append(InsertNode(SubSeq(sorted, 1, Len(sorted) - 1), x), sorted[Len(sorted)])
         ELSE Append(sorted, x)

RECURSIVE SortNodes(_)
SortNodes(s) ==
    IF s = <<>> THEN <<>>
    ELSE InsertNode(SortNodes(SubSeq(s, 1, Len(s) - 1)), s[Len(s)])

\* TreeNode::sort: the children are sorted, then every child is
RECURSIVE TreeNode_sort(_)
TreeNode_sort(node) ==
    LET sorted == SortNodes(node.children)
    IN  [node EXCEPT !.children = [i \in 1..Len(sorted) |-> TreeNode_sort(sorted[i])]]

\* the concatenation of a sequence of sequences
RECURSIVE Flatten(_)
Flatten(ss) == IF ss = <<>> THEN <<>> ELSE ss[1] \o Flatten(Tail(ss))

\* a render that continues the line of a last child and not that of the
\* others
RECURSIVE render_indentation_swapped(_, _, _, _)
render_indentation_swapped(node, prefix, is_last, is_root) ==
    LET connector == IF is_last THEN <<9492, 9472, 9472, 32>> ELSE <<9500, 9472, 9472, 32>>
        suffix == IF node.is_dir THEN <<47>> ELSE <<>>
        own == IF is_root THEN <<>>
               ELSE << prefix \o connector \o node.name \o suffix >>
        child_count == Len(node.children)
        new_prefix == IF is_root THEN <<>>
                      ELSE prefix \o (IF is_last THEN <<9474, 32, 32, 32>> ELSE <<32, 32, 32, 32>>)
    IN  own \o Flatten([i \in 1..child_count |->
                render_indentation_swapped(node.children[i], new_prefix, i = child_count, FALSE)])

\* TreeNode::render: the lines of the node and of its subtree
RECURSIVE render(_, _, _, _)
render(node, prefix, is_last, is_root) ==
    LET connector == IF is_last THEN <<9492, 9472, 9472, 32>> ELSE <<9500, 9472, 9472, 32>>
        suffix == IF node.is_dir THEN <<47>> ELSE <<>>
        own == IF is_root THEN <<>>
               ELSE << prefix \o connector \o node.name \o suffix >>
        child_count == Len(node.children)
        new_prefix == IF is_root THEN <<>>
                      ELSE prefix \o (IF is_last THEN <<32, 32, 32, 32>> ELSE <<9474, 32, 32, 32>>)
    IN  own \o Flatten([i \in 1..child_count |->
                render(node.children[i], new_prefix, i = child_count, FALSE)])

\* generate_tree: files are paths relative to the project directory
RECURSIVE AddAll(_, _)
AddAll(root, fl) ==
    IF fl = <<>> THEN root ELSE AddAll(add_path(root, fl[1], TRUE), Tail(fl))

BuildTree(fl, project_name) ==
    TreeNode_sort(AddAll(TreeNode_new(project_name, TRUE), fl))

generate_tree(fl, project_name) ==
    << project_name \o <<47>> >> \o render(BuildTree(fl, project_name), <<>>, TRUE, TRUE)

----------------------------------------------------------------------------
(* The Markdown document (markdown.rs).                                    *)

\* generate_anchor
RECURSIVE generate_anchor(_)
generate_anchor(path) ==
    IF path = <<>> THEN <<>>
    ELSE (IF is_alphanumeric(path[1]) THEN <<to_ascii_lowercase(path[1])>>
          ELSE IF path[1] = 45 THEN <<45>>
          ELSE <<>>) \o generate_anchor(Tail(path))

\* a line of the document: its text, what part of the document it is and,
\* for an entry of the table of contents or a section heading, the relative
\* path (and anchor) it carries
Line(kind, text) == [kind |-> kind, text |-> text, path |-> <<>>, anchor |-> <<>>]
Blank == Line("blank", <<>>)

\* generate_markdown: the entry of the table of contents of one file
TocEntry(rel) ==
    LET rel_str == PathStr(rel)
        anchor == generate_anchor(rel_str)
    IN  [kind |-> "toc",
         text |-> <<32, 32, 32, 45, 32, 91, 96>> \o rel_str \o <<96, 93, 40, 35>> \o anchor \o <<41>>,
         path |-> rel_str, anchor |-> anchor]

\* generate_markdown: the section of one file
Section(tree, rel) ==
    LET rel_str == PathStr(rel)
        filename == rel[Len(rel)]
        syntax == get_syntax_for_file(filename)
        content == read_file_content(tree, rel)
    IN  << [kind |-> "heading", text |-> <<35, 35, 35, 32, 96>> \o rel_str \o <<96>>,
            path |-> rel_str, anchor |-> <<>>],
           Blank,
           Line("open", <<96, 96, 96>> \o syntax),
           Line("content", trim_end(content)),
           Line("close", <<96, 96, 96>>),
           Blank >>

\* generate_markdown: the first loop over the files, one entry each
TocEntries(fl) == [i \in 1..Len(fl) |-> TocEntry(fl[i])]

\* a second loop that walks the files from the last to the first
Sections_reversed(tree, fl) ==
    Flatten([i \in 1..Len(fl) |-> Section(tree, fl[Len(fl) + 1 - i])])

\* generate_markdown: the second loop over the files, one section each
Sections(tree, fl) == Flatten([i \in 1..Len(fl) |-> Section(tree, fl[i])])

\* generate_markdown: the lines of the document, before they are joined
generate_markdown(tree, fl, project_name, base_path, include_tree, timestamp) ==
    << Line("title", <<35, 32>> \o project_name),
       Blank,
       Line("generated", <<62, 32, 71, 101, 110, 101, 114, 105, 101, 114, 116, 32, 97, 109, 32>> \o timestamp),
       Line("base", <<62, 32, 66, 97, 115, 105, 115, 118, 101, 114, 122, 101, 105, 99, 104, 110, 105, 115, 58, 32, 96>> \o base_path \o <<96>>),
       Line("count", <<62, 32, 65, 110, 122, 97, 104, 108, 32, 68, 97, 116, 101, 105, 101, 110, 58, 32>> \o Decimal(Len(fl))),
       Blank,
       Line("h2", <<35, 35, 32, 73, 110, 104, 97, 108, 116, 115, 118, 101, 114, 122, 101, 105, 99, 104, 110, 105, 115>>),
       Blank >>
    \o (IF include_tree
        THEN << Line("index", <<49, 46, 32, 91, 79, 114, 100, 110, 101, 114, 115, 116, 114, 117, 107, 116, 117, 114, 93, 40, 35, 111, 114, 100, 110, 101, 114, 115, 116, 114, 117, 107, 116, 117, 114, 41>>),
                Line("index", <<50, 46, 32, 91, 68, 97, 116, 101, 105, 101, 110, 93, 40, 35, 100, 97, 116, 101, 105, 101, 110, 41>>) >>
        ELSE << Line("index", <<49, 46, 32, 91, 68, 97, 116, 101, 105, 101, 110, 93, 40, 35, 100, 97, 116, 101, 105, 101, 110, 41>>) >>)
    \o TocEntries(fl)
    \o << Blank >>
    \o (IF include_tree
        THEN << Line("rule", <<45, 45, 45>>), Blank, Line("h2", <<35, 35, 32, 79, 114, 100, 110, 101, 114, 115, 116, 114, 117, 107, 116, 117, 114>>), Blank,
                Line("open", <<96, 96, 96>>) >>
             \o [i \in 1..Len(generate_tree(fl, project_name)) |->
                    Line("tree", generate_tree(fl, project_name)[i])]
             \o << Line("close", <<96, 96, 96>>), Blank >>
        ELSE <<>>)
    \o << Line("rule", <<45, 45, 45>>), Blank, Line("h2", <<35, 35, 32, 68, 97, 116, 101, 105, 101, 110>>), Blank >>
    \o Sections(tree, fl)

\* lines.join("\n"): the text of the document
RECURSIVE Join(_)
Join(lines) ==
    IF lines = <<>> THEN <<>>
    ELSE IF Len(lines) = 1 THEN lines[1].text
    ELSE lines[1].text \o <<10>> \o Join(Tail(lines))

\* format_size: the thresholds
KB == 1024
MB == KB * 1024

\* format!("{:.2}", a as f64 / b as f64): the quotient with two decimals,
\* the exact value rounded half to even (the division by a power of two is
\* exact)
Fixed2(a, b) ==
    LET q == (a * 100) \div b
        r == (a * 100) % b
        h == IF 2 * r > b \/ (2 * r = b /\ q % 2 = 1) THEN q + 1 ELSE q
    IN  Decimal(h \div 100) \o <<46, 48 + ((h % 100) \div 10), 48 + (h % 10)>>

\* a format_size whose thresholds belong to the smaller unit
format_size_exclusive(bytes) ==
    IF bytes > MB THEN Fixed2(bytes, MB) \o <<32, 77, 66>>
    ELSE IF bytes > KB THEN Fixed2(bytes, KB) \o <<32, 75, 66>>
    ELSE Decimal(bytes) \o <<32, 66, 121, 116, 101, 115>>

\* format_size
format_size(bytes) ==
    IF bytes >= MB THEN Fixed2(bytes, MB) \o <<32, 77, 66>>
    ELSE IF bytes >= KB THEN Fixed2(bytes, KB) \o <<32, 75, 66>>
    ELSE Decimal(bytes) \o <<32, 66, 121, 116, 101, 115>>

----------------------------------------------------------------------------
(* run() (main.rs), after the collection.                                  *)

\* Cli::project_name: --name is not given, so the name of the canonical
\* project directory, or "project" when it cannot be resolved
project_name == IF rootKind = "missing" THEN <<112, 114, 111, 106, 101, 99, 116>> ELSE rootName

\* Cli::output_path, without --output: every character of the project name
\* that is not alphanumeric, "-" or "_" becomes "_", and "_code.md" follows;
\* the file lies directly in the project directory
safe_name ==
    [i \in 1..Len(project_name) |->
        IF is_alphanumeric(project_name[i]) \/ project_name[i] \in {45, 95}
        THEN project_name[i] ELSE 95]
output_name == safe_name \o <<95, 99, 111, 100, 101, 46, 109, 100>>

\* a run() that generates the document of an empty list as well
Generate_of_empty_list ==
    /\ pc = "collected"
    /\ doc' = generate_markdown(fs, files, project_name, rootName,
                                ~cli.no_tree, Decimal(clock))
    /\ pc' = "generated"
    /\ UNCHANGED <<cli, rootKind, rootName, fs, err, extensions, patterns, excludes,
                   stack, seen, files, wrote, clock, run, fs0, prev,
                   arg, result>>

\* run(): no file collected is an error; else the document is generated,
\* stamped with the local time
Generate ==
    /\ pc = "collected"
    /\ IF files = <<>>
       THEN Fail("no matching files") /\ doc' = doc
       ELSE /\ doc' = generate_markdown(fs, files, project_name, rootName,
                                        ~cli.no_tree, Decimal(clock))
            /\ pc' = "generated"
            /\ err' = err
    /\ UNCHANGED <<cli, rootKind, rootName, fs, extensions, patterns, excludes,
                   stack, seen, files, wrote, clock, run, fs0, prev,
                   arg, result>>

\* run(): fs::write of the document to the output path; a file written
\* into the project directory replaces the one of that name
WriteOutput ==
    /\ pc = "generated"
    /\ fs' = IF cli.output.some THEN fs
             ELSE {e \in fs : e.path # <<output_name>>}
                  \cup {File(<<output_name>>, Join(doc))}
    /\ wrote' = TRUE
    /\ pc' = "ok"
    /\ UNCHANGED <<cli, rootKind, rootName, err, extensions, patterns, excludes,
                   stack, seen, files, doc, clock, run, fs0, prev,
                   arg, result>>

\* the program has ended and is started again, later, with the same
\* arguments
NextRun ==
    /\ pc \in {"ok", "err"}
    /\ run < MaxRuns
    /\ prev' = [ran |-> TRUE, fs |-> fs0, files |-> files, doc |-> doc, pc |-> pc,
                wrote |-> wrote]
    /\ run' = run + 1
    /\ fs0' = fs
    /\ pc' = "start"
    /\ err' = ""
    /\ extensions' = {}
    /\ patterns' = <<>>
    /\ excludes' = <<>>
    /\ stack' = <<>>
    /\ seen' = {}
    /\ files' = <<>>
    /\ doc' = <<>>
    /\ wrote' = FALSE
    /\ clock' = clock + 1
    /\ UNCHANGED <<cli, rootKind, rootName, fs, arg, result>>

Next ==
    \/ ListTypes
    \/ Validate
    \/ Configure
    \/ NewConfig
    \/ WalkStart
    \/ WalkStep
    \/ WalkEnd
    \/ Generate
    \/ WriteOutput
    \/ NextRun

Spec == Init /\ [][Next]_vars

----------------------------------------------------------------------------
(* run() on a project directory that holds symbolic links.                 *)

\* what such a directory can hold: the regular file a.py; l.py, a link to
\* a regular file outside the project; x.py, a dangling link; d, a link to
\* a directory outside the project, through which d/t.py is a regular file
LinkUniverse ==
    {{File(<< <<97, 46, 112, 121>> >>, InitialData(<< <<97, 46, 112, 121>> >>))},
     {Symlink(<< <<108, 46, 112, 121>> >>, "file", <<115, 101, 99, 114, 101, 116>> \o <<10>>)},
     {Symlink(<< <<120, 46, 112, 121>> >>, "missing", <<>>)},
     {Symlink(<< <<100>> >>, "dir", <<>>),
      File(<< <<100>>, <<116, 46, 112, 121>> >>, InitialData(<< <<100>>, <<116, 46, 112, 121>> >>))}}

LinkInit ==
    /\ cli \in {c \in CliValues : /\ c.types = Some(<< <<80, 121, 116, 104, 111, 110>> >>)
                                 /\ c.extensions = None
                                 /\ c.excludes = None}
    /\ rootKind = "dir"
    /\ rootName = <<112>>
    /\ fs \in {UNION S : S \in SUBSET LinkUniverse}
    /\ fs0 = fs
    /\ pc = "start"
    /\ err = ""
    /\ extensions = {}
    /\ patterns = <<>>
    /\ excludes = <<>>
    /\ stack = <<>>
    /\ seen = {}
    /\ files = <<>>
    /\ doc = <<>>
    /\ wrote = FALSE
    /\ clock = 0
    /\ run = 1
    /\ prev = NoPrev
    /\ arg = NoCall
    /\ result = <<>>

LinkSpec == LinkInit /\ [][Next]_vars

----------------------------------------------------------------------------
(* The functions of the library, each called on its own.                   *)

\* the paths a file list can hold: those of FileUniverse, and src/m.py and
\* src/gen/g.py, which share their directories with other files
ListUniverse ==
    FileUniverse
    \cup {<< <<115, 114, 99>>, <<109, 46, 112, 121>> >>, << <<115, 114, 99>>, <<103, 101, 110>>, <<103, 46, 112, 121>> >>}

\* the file lists of up to MaxFiles paths, in any order, with repetitions
FileLists == UNION {[1..n -> ListUniverse] : n \in 0..MaxFiles}

\* the file names get_syntax_for_file is called with
FileNames ==
    {<<68, 111, 99, 107, 101, 114, 102, 105, 108, 101>>,
     <<100, 111, 99, 107, 101, 114, 102, 105, 108, 101>>,
     <<77, 65, 75, 69, 70, 73, 76, 69>>,
     <<77, 97, 107, 101, 102, 105, 108, 101>>,
     <<46, 103, 105, 116, 105, 103, 110, 111, 114, 101>>,
     <<46, 71, 105, 116, 73, 103, 110, 111, 114, 101>>,
     <<46, 101, 110, 118>>,
     <<46, 101, 110, 118, 46, 108, 111, 99, 97, 108>>,
     <<46, 69, 78, 86, 46, 112, 121>>,
     <<109, 97, 105, 110, 46, 112, 121>>,
     <<77, 65, 73, 78, 46, 80, 89>>,
     <<97, 46, 116, 97, 114, 46, 74, 83, 79, 78>>,
     <<82, 69, 65, 68, 77, 69>>,
     <<120, 46, 122, 122, 122>>,
     <<68, 111, 99, 107, 101, 114, 102, 105, 108, 101, 46, 112, 121>>,
     <<109, 97, 107, 101, 102, 105, 108, 101, 46, 114, 115>>,
     <<97, 112, 112, 46, 100, 111, 99, 107, 101, 114, 102, 105, 108, 101>>,
     <<46, 112, 121>>,
     <<120, 46>>,
     <<196, 46, 84, 83>>,
     <<109, 121, 46, 101, 110, 118>>,
     <<97, 46, 103, 105, 116, 105, 103, 110, 111, 114, 101>>}

\* the byte counts format_size is called with: around both thresholds, the
\* values of the unit tests, and ties of the rounding
ByteCounts ==
    {0, 1, 500, 1000, KB - 1, KB, KB + 1, 1152, 1536, 10 * KB + 5, 1000000,
     MB - 1, MB, MB + 1, MB + 5243, 2097152, 3 * MB + 512 * KB}

\* the directory that holds the files of S, those of U unreadable
DiskOf(S, U) ==
    {[File(q, InitialData(q)) EXCEPT !.readable = (q \notin U)] : q \in S}
    \cup {Dir(d) : d \in UNION {Ancestors(q) : q \in S}}

\* the calls: a function and its arguments
Calls ==
    {[NoCall EXCEPT !.fn = "generate_markdown", !.files = fl, !.include_tree = b] :
        fl \in FileLists, b \in BOOLEAN}
    \cup {[NoCall EXCEPT !.fn = "generate_tree", !.files = fl] : fl \in FileLists}
    \cup {[NoCall EXCEPT !.fn = "get_syntax_for_file", !.filename = n] : n \in FileNames}
    \cup {[NoCall EXCEPT !.fn = "format_size", !.bytes = n] : n \in ByteCounts}

FnInit ==
    /\ arg \in Calls
    /\ fs \in IF arg.fn = "generate_markdown"
              THEN {DiskOf(Range(arg.files), U) : U \in SUBSET Range(arg.files)}
              ELSE {{}}
    /\ cli = [command |-> "none", types |-> None, extensions |-> None, excludes |-> None,
              output |-> None, no_tree |-> FALSE, no_default_excludes |-> FALSE]
    /\ rootKind = "dir"
    /\ rootName = <<112>>
    /\ fs0 = fs
    /\ pc = "call"
    /\ err = ""
    /\ extensions = {}
    /\ patterns = <<>>
    /\ excludes = <<>>
    /\ stack = <<>>
    /\ seen = {}
    /\ files = <<>>
    /\ doc = <<>>
    /\ wrote = FALSE
    /\ clock = 0
    /\ run = 1
    /\ prev = NoPrev
    /\ result = <<>>

\* the call returns with value v
Return(v) ==
    /\ result' = v
    /\ pc' = "returned"
    /\ UNCHANGED <<cli, rootKind, rootName, fs, err, extensions, patterns, excludes,
                   stack, seen, files, doc, wrote, clock, run, fs0, prev, arg>>

Call_generate_markdown ==
    /\ pc = "call"
    /\ arg.fn = "generate_markdown"
    /\ Return(generate_markdown(fs, arg.files, project_name, rootName,
                                arg.include_tree, Decimal(clock)))

Call_generate_tree ==
    /\ pc = "call"
    /\ arg.fn = "generate_tree"
    /\ Return(generate_tree(arg.files, project_name))

Call_get_syntax_for_file ==
    /\ pc = "call"
    /\ arg.fn = "get_syntax_for_file"
    /\ Return(get_syntax_for_file(arg.filename))

Call_format_size ==
    /\ pc = "call"
    /\ arg.fn = "format_size"
    /\ Return(format_size(arg.bytes))

FnNext ==
    \/ Call_generate_markdown
    \/ Call_generate_tree
    \/ Call_get_syntax_for_file
    \/ Call_format_size

FnSpec == FnInit /\ [][FnNext]_vars

----------------------------------------------------------------------------
(* Properties of the collection.                                           *)

\* the list collect_files returned is in files
Returned == pc \in {"collected", "generated", "ok"}

\* p is a proper prefix of q: q lies beneath the directory p
Beneath(q, p) == Len(p) < Len(q) /\ SubSeq(q, 1, Len(p)) = p

\* some exclude pattern matches the string s
Excluded(s) == \E i \in 1..Len(excludes) : GlobMatch(excludes[i], s)

\* the relative path or the bare name of the directory d below the root
\* matches an exclude pattern
ExcludedDir(d) == Excluded(PathStr(d)) \/ Excluded(d[Len(d)])

\* the directories below the root
Dirs == {e.path : e \in {x \in fs : x.kind = "dir"}}

\* the name has an extension (a "." that is not its first character), and
\* that extension, lower-cased and dot-prefixed, is in the extension set
ExtensionAllowed(n) ==
    \E k \in 2..Len(n) :
        /\ n[k] = 46
        /\ \A j \in (k + 1)..Len(n) : n[j] # 46
        /\ [i \in 1..(Len(n) - k + 1) |-> char_to_lowercase(n[k + i - 1])] \in extensions

\* neither the relative path of the file nor one of its components matches
\* an exclude pattern
NotExcluded(f) == ~Excluded(PathStr(f)) /\ \A i \in 1..Len(f) : ~Excluded(f[i])

\* C1: no file beneath a directory whose relative path or bare name matches
\* an exclude pattern is in the list of collect_files, whatever its own name
\* and extension
C1_Pruning ==
    pc \in {"walking", "collected", "generated", "ok"} =>
        \A d \in Dirs : ExcludedDir(d) =>
            \A i \in 1..Len(files) : ~Beneath(files[i], d)

\* C1 witness: the list has been returned, and beneath an excluded
\* directory lies a file that by its own path and extension would be taken
C1_Witness ==
    /\ pc = "collected"
    /\ \E d \in Dirs : \E f \in RegularFiles(fs) :
         /\ ExcludedDir(d)
         /\ Beneath(f, d)
         /\ NotExcluded(f)
         /\ ExtensionAllowed(f[Len(f)])

\* C2: the list of collect_files holds, once each, exactly the regular
\* files below the root whose relative path and components match no exclude
\* pattern and whose extension is in the extension set
C2_ExactlyTheMatching ==
    pc = "collected" =>
        /\ Range(files) =
             {f \in RegularFiles(fs) : NotExcluded(f) /\ ExtensionAllowed(f[Len(f)])}
        /\ Cardinality(Range(files)) = Len(files)

\* C5: every file in the list of collect_files has an extension, and that
\* extension is in the extension set
C5_ExtensionGate ==
    \A i \in 1..Len(files) : ExtensionAllowed(files[i][Len(files[i])])

\* C5 witness: the list has been returned, no exclude pattern matches a
\* dot-file whose whole name is in the extension set, and it is not listed
C5_Witness ==
    /\ pc = "collected"
    /\ \E f \in RegularFiles(fs) :
         /\ NotExcluded(f)
         /\ \A d \in Dirs : Beneath(f, d) => ~ExcludedDir(d)
         /\ f[Len(f)][1] = 46
         /\ f[Len(f)] \in extensions
         /\ \A i \in 1..Len(files) : files[i] # f

\* C6: at every moment of the walk, no path the walk has produced lies
\* beneath a directory (the root, by its name, included) whose relative path
\* or bare name matches an exclude pattern
C6_NeverEntered ==
    \A p \in seen : \A k \in 0..(Len(p) - 1) :
        /\ ~Excluded(PathStr(SubSeq(p, 1, k)))
        /\ ~Excluded(IF k = 0 THEN rootName ELSE p[k])

\* C6 witness: the walk is over, it has produced an excluded directory that
\* is not empty, and so has passed it by
C6_Witness ==
    /\ pc = "walking"
    /\ stack = <<>>
    /\ \E d \in Dirs : d \in seen /\ ExcludedDir(d) /\ Children(fs, d) # {}

----------------------------------------------------------------------------
(* Properties of the document.                                             *)

IsToc(l) == l.kind = "toc"
IsHeading(l) == l.kind = "heading"
IsTreeLine(l) == l.kind = "tree"

\* C7: the table of contents has one entry per file of the list, and the
\* relative paths of its entries are, in number and order, those of the
\* section headings
C7_TocMatchesSections ==
    doc # <<>> =>
        LET toc == SelectSeq(doc, IsToc)
            heads == SelectSeq(doc, IsHeading)
        IN  /\ Len(toc) = Len(files)
            /\ Len(heads) = Len(toc)
            /\ \A i \in 1..Len(toc) :
                 toc[i].path = PathStr(files[i]) /\ heads[i].path = toc[i].path

\* C7 witness: a document of at least two files with different paths
C7_Witness ==
    /\ pc = "generated"
    /\ Len(SelectSeq(doc, IsToc)) >= 2
    /\ SelectSeq(doc, IsToc)[1].path # SelectSeq(doc, IsToc)[2].path

\* c is an alphanumeric character that is not an upper-case letter
LowerAlphanumeric(c) == is_alphanumeric(c) /\ char_to_lowercase(c) = c

\* C8: every anchor of the table of contents consists of lower-case
\* alphanumeric characters and "-" only
C8_AnchorCharacters ==
    \A i \in 1..Len(doc) : doc[i].kind = "toc" =>
        \A k \in 1..Len(doc[i].anchor) :
            doc[i].anchor[k] = 45 \/ LowerAlphanumeric(doc[i].anchor[k])

\* the rendered tree without its header line
TreeLines ==
    LET t == SelectSeq(doc, IsTreeLine)
    IN  [i \in 1..(Len(t) - 1) |-> t[i + 1].text]

\* where the connector of a rendered line begins; four characters of
\* indentation per level precede it, the name follows it
ConnectorAt(line) ==
    CHOOSE i \in 1..Len(line) :
        line[i] \in {9492, 9500} /\ \A j \in 1..(i - 1) : line[j] \notin {9492, 9500}
DepthOf(line) == (ConnectorAt(line) - 1) \div 4
IsDirLine(line) == line[Len(line)] = 47
NameOf(line) ==
    SubSeq(line, ConnectorAt(line) + 4, IF IsDirLine(line) THEN Len(line) - 1 ELSE Len(line))

\* lines i < j of the rendered tree are children of the same node
Siblings(t, i, j) ==
    /\ i < j
    /\ DepthOf(t[i]) = DepthOf(t[j])
    /\ \A k \in (i + 1)..(j - 1) : DepthOf(t[k]) > DepthOf(t[i])

\* C9: among the children of one node of the rendered tree no file comes
\* before a directory, and two directories, or two files, are in the order
\* of their lower-cased names
C9_TreeOrder ==
    \A i \in 1..Len(TreeLines) : \A j \in 1..Len(TreeLines) :
        Siblings(TreeLines, i, j) =>
            /\ IsDirLine(TreeLines[j]) => IsDirLine(TreeLines[i])
            /\ IsDirLine(TreeLines[i]) = IsDirLine(TreeLines[j]) =>
                 ~StrLess(to_lowercase(NameOf(TreeLines[j])),
                          to_lowercase(NameOf(TreeLines[i])))

\* C9 witness: a rendered tree in which a directory stands before a file
\* whose name sorts before its own
C9_Witness ==
    \E i \in 1..Len(TreeLines) : \E j \in 1..Len(TreeLines) :
        /\ Siblings(TreeLines, i, j)
        /\ IsDirLine(TreeLines[i])
        /\ ~IsDirLine(TreeLines[j])
        /\ StrLess(to_lowercase(NameOf(TreeLines[j])), to_lowercase(NameOf(TreeLines[i])))

----------------------------------------------------------------------------
(* Properties of run().                                                    *)

\* the two documents differ at most in the line of the generation time
SameButTimestamp(d1, d2) ==
    /\ Len(d1) = Len(d2)
    /\ \A i \in 1..Len(d1) :
         \/ d1[i].kind = "generated" /\ d2[i].kind = "generated"
         \/ d1[i] = d2[i]

\* C3: the document of a run equals that of the run before it with the
\* same arguments, but for the line of the generation time
C3_Idempotent ==
    (prev.ran /\ prev.pc = "ok" /\ pc \in {"generated", "ok"}) =>
        SameButTimestamp(prev.doc, doc)

\* C4: two walks of the same set of files return the same list, whatever
\* order the entries were enumerated in
C4_OrderDeterminism ==
    (prev.ran /\ prev.fs = fs0 /\ Returned) => files = prev.files

\* the configuration is in error: the root is missing or no directory, a
\* project type is unknown, or an exclude pattern compiles in neither form
UnknownType ==
    \E i \in 1..Len(cli.types.v) :
        \A j \in 1..Len(PROJECT_TYPES) : PROJECT_TYPES[j].name # to_lowercase(cli.types.v[i])
BadPattern ==
    \E i \in 1..Len(cli.excludes.v) :
        ~GlobValid(Normalized(cli.excludes.v[i])) /\ ~GlobValid(Fallback(cli.excludes.v[i]))
ConfigurationError == rootKind # "dir" \/ UnknownType \/ BadPattern

\* nothing of the walk, of the document or of the output file exists
NothingDone == stack = <<>> /\ seen = {} /\ files = <<>> /\ doc = <<>> /\ ~wrote

\* C10 as stated: with a configuration error the run is before its walk or
\* has ended with an error, and has walked, generated and written nothing
C10_AbortsWithError ==
    ConfigurationError =>
        pc \in {"start", "validated", "resolved", "err"} /\ NothingDone

\* C10 amended: the same, but a run of `list-types` ends without an error
C10_AbortsBeforeWalk ==
    ConfigurationError =>
        /\ \/ pc \in {"start", "validated", "resolved", "err"}
           \/ cli.command = "list-types" /\ pc = "ok"
        /\ cli.command = "none" => pc # "ok"
        /\ NothingDone

\* C10 witness: a run that got past the validation of the root and the
\* project types has ended with the error of a pattern that does not compile
C10_Witness ==
    /\ pc = "err"
    /\ err = "invalid pattern"
    /\ BadPattern
    /\ rootKind = "dir"
    /\ ~UnknownType

----------------------------------------------------------------------------
(* Properties of the end of run().                                         *)

\* the walk of this run has come to its end
WalkCompleted == seen # {} /\ stack = <<>> /\ pc # "walking"

\* C11: once the walk has ended with no file collected, the run is about to
\* fail or has failed, and has generated and written nothing; an output
\* file is written, and the directory changed, only by a run that collected
\* at least one file
C11_EmptyResultFatal ==
    /\ (WalkCompleted /\ files = <<>>) =>
          /\ pc \in {"collected", "err"}
          /\ pc = "err" => err = "no matching files"
          /\ doc = <<>> /\ ~wrote /\ fs = fs0
    /\ (wrote \/ fs # fs0) => files # <<>>

\* C11 witness: the project holds regular files, none was collected, and
\* the run has ended with the error of the empty result
C11_Witness ==
    /\ pc = "err"
    /\ err = "no matching files"
    /\ WalkCompleted
    /\ RegularFiles(fs) # {}
    /\ ~wrote

----------------------------------------------------------------------------
(* Properties of generate_markdown called on any file list.                *)

\* generate_markdown has returned its document in result
MarkdownReturned == pc = "returned" /\ arg.fn = "generate_markdown"

\* s is the inline error placeholder of a file that could not be read
IsPlaceholder(s) ==
    /\ StartsWith(s, <<91, 70, 101, 104, 108, 101, 114, 58, 32, 68, 97, 116, 101, 105, 32, 107, 111, 110, 110, 116, 101, 32, 110, 105, 99, 104, 116, 32, 103, 101, 108, 101, 115, 101, 110, 32, 119, 101, 114, 100, 101, 110, 32, 45, 32>>)
    /\ s[Len(s)] = 93

\* the files of the list that cannot be read
Unreadable == {e.path : e \in {x \in fs : ~x.readable}}

\* the document has a table-of-contents entry and a section for every file
\* of the list, in list order; the code block of a section holds the
\* placeholder if the file is unreadable, else the text of the file, with
\* its trailing whitespace trimmed or as it is
SectionPerFile(trimmed) ==
    MarkdownReturned =>
        LET toc == SelectSeq(result, IsToc)
            heads == {k \in 1..Len(result) : IsHeading(result[k])}
            HeadAt(i) == CHOOSE k \in heads : Cardinality({j \in heads : j < k}) = i - 1
        IN  /\ Len(toc) = Len(arg.files)
            /\ Cardinality(heads) = Len(arg.files)
            /\ \A i \in 1..Len(arg.files) :
                 LET k == HeadAt(i)
                     e == CHOOSE x \in fs : x.path = arg.files[i]
                 IN  /\ toc[i].path = PathStr(arg.files[i])
                     /\ result[k].path = PathStr(arg.files[i])
                     /\ k + 4 <= Len(result)
                     /\ result[k + 2].kind = "open"
                     /\ result[k + 3].kind = "content"
                     /\ result[k + 4].kind = "close"
                     /\ IF e.path \in Unreadable
                        THEN IsPlaceholder(result[k + 3].text)
                        ELSE result[k + 3].text = IF trimmed THEN trim_end(e.data) ELSE e.data

\* C12 as stated: whichever files cannot be read, the document has an entry
\* and a section for every file of the list, in order; an unreadable file's
\* block holds the error placeholder and a readable file's block its content
C12_ReadFailuresIsolated == SectionPerFile(FALSE)

\* C12 amended: as above, where a readable file's block holds its content
\* with the trailing whitespace trimmed
C12_ReadFailuresIsolated_Trimmed == SectionPerFile(TRUE)

\* C12 witness: a document of a list in which a file that cannot be read
\* precedes one that can
C12_Witness ==
    /\ MarkdownReturned
    /\ \E i, j \in 1..Len(arg.files) :
         i < j /\ arg.files[i] \in Unreadable /\ arg.files[j] \notin Unreadable

----------------------------------------------------------------------------
(* Properties of get_syntax_for_file.                                      *)

\* get_syntax_for_file has returned its tag in result
SyntaxReturned == pc = "returned" /\ arg.fn = "get_syntax_for_file"

\* the final dot-delimited suffix of a name, with its dot; empty if the name
\* has no dot
FinalSuffix(n) ==
    LET dots == {i \in 1..Len(n) : n[i] = 46}
    IN  IF dots = {} THEN <<>>
        ELSE SubSeq(n, CHOOSE i \in dots : \A j \in dots : j <= i, Len(n))

\* the tags the extension table has for a suffix: none or one
TableTags(suffix) == {m[2] : m \in {x \in get_syntax_map : x[1] = suffix}}

\* the lower-cased name is one of the special names
IsSpecialName(l) ==
    \/ l \in {<<100, 111, 99, 107, 101, 114, 102, 105, 108, 101>>, <<109, 97, 107, 101, 102, 105, 108, 101>>, <<46, 103, 105, 116, 105, 103, 110, 111, 114, 101>>}
    \/ StartsWith(l, <<46, 101, 110, 118>>)

\* C13: for the lower-cased name l of the file: the special names yield
\* their tags whatever the suffix; any other name yields the tag the table
\* has for its final suffix, the empty tag if it has none; and the result
\* is that of the lower-cased name
C13_SyntaxPriority ==
    SyntaxReturned =>
        LET l == to_lowercase(arg.filename) IN
        /\ l = <<100, 111, 99, 107, 101, 114, 102, 105, 108, 101>> => result = <<100, 111, 99, 107, 101, 114, 102, 105, 108, 101>>
        /\ l = <<109, 97, 107, 101, 102, 105, 108, 101>> => result = <<109, 97, 107, 101, 102, 105, 108, 101>>
        /\ l = <<46, 103, 105, 116, 105, 103, 110, 111, 114, 101>> => result = <<103, 105, 116, 105, 103, 110, 111, 114, 101>>
        /\ StartsWith(l, <<46, 101, 110, 118>>) => result = <<100, 111, 116, 101, 110, 118>>
        /\ ~IsSpecialName(l) =>
              IF TableTags(FinalSuffix(l)) # {}
              THEN result \in TableTags(FinalSuffix(l))
              ELSE result = <<>>
        /\ result = get_syntax_for_file(l)

\* C13 witness: a name with upper-case letters that begins with .env and
\* whose final suffix has another tag in the table has got the tag dotenv
C13_Witness ==
    /\ SyntaxReturned
    /\ arg.filename # to_lowercase(arg.filename)
    /\ StartsWith(to_lowercase(arg.filename), <<46, 101, 110, 118>>)
    /\ TableTags(FinalSuffix(to_lowercase(arg.filename))) \notin {{}, {<<100, 111, 116, 101, 110, 118>>}}
    /\ result = <<100, 111, 116, 101, 110, 118>>

----------------------------------------------------------------------------
(* Properties of format_size.                                              *)

\* format_size has returned its text in result
SizeReturned == pc = "returned" /\ arg.fn = "format_size"

\* the number a sequence of decimal digits denotes
RECURSIVE DigitsValue(_)
DigitsValue(s) ==
    IF s = <<>> THEN 0 ELSE 10 * DigitsValue(SubSeq(s, 1, Len(s) - 1)) + (s[Len(s)] - 48)

\* s is digits, a point, two digits and the unit, and the number it shows
\* is n / divisor to within half a hundredth
IsTwoDecimal(s, unit, n, divisor) ==
    LET len == Len(s) - Len(unit)
        number == SubSeq(s, 1, len)
        hundredths == DigitsValue(SubSeq(number, 1, len - 3) \o SubSeq(number, len - 1, len))
    IN  /\ len >= 4
        /\ SubSeq(s, len + 1, Len(s)) = unit
        /\ number[len - 2] = 46
        /\ \A i \in (1..len) \ {len - 2} : number[i] \in 48..57
        /\ len > 4 => number[1] # 48
        /\ 2 * (hundredths * divisor - 100 * n) <= divisor
        /\ 2 * (100 * n - hundredths * divisor) <= divisor

\* C14: below 1024 the result is the count and " Bytes"; from 1024 to below
\* 1048576 a number of two decimals and " KB"; from 1048576 on a number of
\* two decimals and " MB"; the three values of the unit test are as stated
C14_UnitBoundaries ==
    SizeReturned =>
        /\ arg.bytes < 1024 => result = Decimal(arg.bytes) \o <<32, 66, 121, 116, 101, 115>>
        /\ (1024 <= arg.bytes /\ arg.bytes < 1048576) =>
              IsTwoDecimal(result, <<32, 75, 66>>, arg.bytes, 1024)
        /\ arg.bytes >= 1048576 => IsTwoDecimal(result, <<32, 77, 66>>, arg.bytes, 1048576)
        /\ arg.bytes = 500 => result = <<53, 48, 48, 32, 66, 121, 116, 101, 115>>
        /\ arg.bytes = 1536 => result = <<49, 46, 53, 48, 32, 75, 66>>
        /\ arg.bytes = 2097152 => result = <<50, 46, 48, 48, 32, 77, 66>>

\* C14 witness: the smallest count of the KB range has been formatted
C14_Witness ==
    /\ SizeReturned
    /\ arg.bytes = 1024
    /\ result = <<49, 46, 48, 48, 32, 75, 66>>

----------------------------------------------------------------------------
(* Properties of the collection in a directory with symbolic links.        *)

\* the symbolic links of the project directory
Symlinks == {e.path : e \in {x \in fs : x.kind = "symlink"}}

\* C15: no returned path is a symbolic link or lies beneath one: every
\* returned path is a regular file of the project directory
C15_NoSymlinkReturned ==
    Returned =>
        \A i \in 1..Len(files) :
            /\ files[i] \notin Symlinks
            /\ \A d \in Symlinks : ~Beneath(files[i], d)
            /\ files[i] \in RegularFiles(fs)

----------------------------------------------------------------------------
(* Properties of generate_tree called on any file list.                    *)

\* generate_tree has returned its lines in result
TreeReturned == pc = "returned" /\ arg.fn = "generate_tree"

\* the line of the parent of line i of a rendered tree t: the nearest line
\* above it that is one level higher; 0 for a top-level line
ParentOf(t, i) ==
    IF DepthOf(t[i]) = 0 THEN 0
    ELSE LET above == {k \in 1..(i - 1) : DepthOf(t[k]) = DepthOf(t[i]) - 1}
         IN  CHOOSE k \in above : \A j \in above : j <= k

\* the path of the node line i shows: the names from the top level down
RECURSIVE LinePath(_, _)
LinePath(t, i) ==
    IF ParentOf(t, i) = 0 THEN << NameOf(t[i]) >>
    ELSE Append(LinePath(t, ParentOf(t, i)), NameOf(t[i]))

\* the lines of the rendered tree t that show path p as a directory, or as
\* a file
LinesOf(t, p, as_dir) ==
    {i \in 1..Len(t) : LinePath(t, i) = p /\ IsDirLine(t[i]) = as_dir}

\* C16: the first line is the project name and "/"; after it come exactly
\* one line per distinct file of the list, not ending in "/", and exactly one
\* line per distinct ancestor directory of a file, ending in "/", and no
\* other line; so an empty list gives the header alone and a single
\* top-level file one line after it
C16_OneLinePerNode ==
    TreeReturned =>
        LET t == Tail(result)
            F == Range(arg.files)
            A == UNION {Ancestors(p) : p \in F}
        IN  /\ result[1] = project_name \o <<47>>
            /\ Len(t) = Cardinality(F \cup A)
            /\ \A p \in F : Cardinality(LinesOf(t, p, FALSE)) = 1
            /\ \A d \in A : Cardinality(LinesOf(t, d, TRUE)) = 1
            /\ arg.files = <<>> => result = << project_name \o <<47>> >>
            /\ (Len(arg.files) = 1 /\ Len(arg.files[1]) = 1) => Len(t) = 1

\* C16 witness: the tree of two different files that have a directory in
\* common, which has one line
C16_Witness ==
    /\ TreeReturned
    /\ \E i, j \in 1..Len(arg.files) :
         /\ arg.files[i] # arg.files[j]
         /\ \E d \in Ancestors(arg.files[i]) \cap Ancestors(arg.files[j]) :
              Cardinality(LinesOf(Tail(result), d, TRUE)) = 1

\* line i of the rendered tree t is the last child of its parent
IsLastChild(t, i) == ~\E j \in (i + 1)..Len(t) : Siblings(t, i, j)

\* the indentation of the children of line k: that of line k, and four
\* spaces if line k is a last child, else a bar and three spaces; empty for
\* the top-level lines (k = 0)
RECURSIVE IndentationBelow(_, _)
IndentationBelow(t, k) ==
    IF k = 0 THEN <<>>
    ELSE IndentationBelow(t, ParentOf(t, k))
         \o (IF IsLastChild(t, k) THEN <<32, 32, 32, 32>> ELSE <<9474, 32, 32, 32>>)

\* C17: the connector of every line is "└── " if the node is the last child
\* of its parent and "├── " if not, and what precedes it is, from the
\* top-level ancestor down to the parent, four spaces for an ancestor that
\* is a last child and "│   " for one that is not
C17_ConnectorsAndIndentation ==
    TreeReturned =>
        LET t == Tail(result) IN
        \A i \in 1..Len(t) :
            LET c == ConnectorAt(t[i]) IN
            /\ SubSeq(t[i], c, c + 3) =
                  IF IsLastChild(t, i) THEN <<9492, 9472, 9472, 32>>
                  ELSE <<9500, 9472, 9472, 32>>
            /\ SubSeq(t[i], 1, c - 1) = IndentationBelow(t, ParentOf(t, i))

\* C17 witness: a line two levels down whose top-level ancestor is not a
\* last child and whose parent is one
C17_Witness ==
    /\ TreeReturned
    /\ \E i \in 1..Len(Tail(result)) :
         LET t == Tail(result) IN
         /\ DepthOf(t[i]) = 2
         /\ IsLastChild(t, ParentOf(t, i))
         /\ ~IsLastChild(t, ParentOf(t, ParentOf(t, i)))
         /\ SubSeq(t[i], 1, 8) = <<9474, 32, 32, 32, 32, 32, 32, 32>>

====
